---- MODULE Spec2Model ----
(***************************************************************************)
(* PyTake2: creation and edition of Houdini takes through Python.          *)
(*                                                                         *)
(* Python strings are sequences of one-character strings, so that the     *)
(* string operations of the code (digit runs, character replacement,      *)
(* substring tests, split) are computed as the code computes them.        *)
(* The host (hou.hscript, hou.node) is the part of the state the code     *)
(* reaches through its directives: the take list, the active take and the *)
(* inclusions of every take.                                              *)
(***************************************************************************)
EXTENDS Integers, Sequences, FiniteSets, TLC

VARIABLES
    takes,      \* host: the take list, a sequence of [name, parent, incl]
    active,     \* host: $ACTIVETAKE
    scene,      \* host: per node, the flag states and the parameter values
    objs,       \* Python: the Take objects, [used, name, parent, node_included]
    heap,       \* Python: the dict objects that node_included refers to
    last,       \* the last call made: what was called, with what, its outcome
    ncalls      \* the number of calls made so far

vars == <<takes, active, scene, objs, heap, last, ncalls>>

(***************************************************************************)
(* Bounds of the model.                                                    *)
(***************************************************************************)
MaxObjs == 2        \* Take objects the caller gets hold of in one session
MaxCalls == 4       \* calls the caller makes in one session
MaxNameLen == 3     \* length of the strings given to _checkName
MaxLines == 2       \* takeinclude lines of the scripts given to _readScript
MaxTakes == 3       \* take names the host holds when _incName is called alone
MaxIter == 8        \* iterations of the loop of _incName that are followed

(***************************************************************************)
(* Strings.                                                                *)
(***************************************************************************)
Digits == <<"0", "1", "2", "3", "4", "5", "6", "7", "8", "9">>
LowerAlpha == <<"a", "b", "c", "d", "e", "f", "g", "h", "i", "j", "k", "l", "m",
                "n", "o", "p", "q", "r", "s", "t", "u", "v", "w", "x", "y", "z">>
UpperAlpha == <<"A", "B", "C", "D", "E", "F", "G", "H", "I", "J", "K", "L", "M",
                "N", "O", "P", "Q", "R", "S", "T", "U", "V", "W", "X", "Y", "Z">>

Range(s) == {s[i] : i \in 1..Len(s)}

\* str.isdigit() of one character
IsDigit(c) == c \in Range(Digits)

DigitVal(c) == (CHOOSE i \in 1..10 : Digits[i] = c) - 1

\* str.lower() of one character
Lower(c) ==
    IF c \in Range(UpperAlpha)
    THEN LowerAlpha[CHOOSE i \in 1..26 : UpperAlpha[i] = c]
    ELSE c

\* int(s) of a non-empty run of decimal digits
RECURSIVE StrToInt(_)
StrToInt(s) ==
    IF s = <<>> THEN 0
    ELSE StrToInt(SubSeq(s, 1, Len(s) - 1)) * 10 + DigitVal(s[Len(s)])

\* str(n) of a natural number
RECURSIVE IntToStr(_)
IntToStr(n) ==
    IF n < 10 THEN <<Digits[n + 1]>>
    ELSE IntToStr(n \div 10) \o <<Digits[(n % 10) + 1]>>

\* sub in s, for Python strings
Contains(s, sub) ==
    \E i \in 0..(Len(s) - Len(sub)) : SubSeq(s, i + 1, i + Len(sub)) = sub

StartsWith(s, pre) ==
    Len(s) >= Len(pre) /\ SubSeq(s, 1, Len(pre)) = pre

\* s.replace(old, new): every non-overlapping occurrence, left to right
RECURSIVE Replace(_, _, _)
Replace(s, old, new) ==
    IF Len(s) < Len(old) THEN s
    ELSE IF SubSeq(s, 1, Len(old)) = old
         THEN new \o Replace(SubSeq(s, Len(old) + 1, Len(s)), old, new)
         ELSE <<s[1]>> \o Replace(SubSeq(s, 2, Len(s)), old, new)

\* s.split(c) for a one-character separator: a sequence of strings
RECURSIVE SplitAt(_, _, _)
SplitAt(s, c, cur) ==
    IF s = <<>> THEN <<cur>>
    ELSE IF s[1] = c
         THEN <<cur>> \o SplitAt(Tail(s), c, <<>>)
         ELSE SplitAt(Tail(s), c, Append(cur, s[1]))

Split(s, c) == SplitAt(s, c, <<>>)

\* sep.join(parts)
RECURSIVE Join(_, _)
Join(parts, sep) ==
    IF parts = <<>> THEN <<>>
    ELSE IF Len(parts) = 1 THEN parts[1]
         ELSE parts[1] \o sep \o Join(Tail(parts), sep)

Main == <<"M", "a", "i", "n">>
Space == <<" ">>
Newline == <<"\n">>

(***************************************************************************)
(* Python dicts: sets of <<key, value>> pairs with one pair per key.       *)
(* Values are opaque and written as strings ("True", "None", "1").         *)
(***************************************************************************)
DictKeys(d) == {e[1] : e \in d}
DictGet(d, k) == (CHOOSE e \in d : e[1] = k)[2]
DictPut(d, k, v) == {e \in d : e[1] # k} \cup {<<k, v>>}
DictPop(d, k) == {e \in d : e[1] # k}

(***************************************************************************)
(* Name utilities.                                                         *)
(***************************************************************************)
LegalChars == Range(LowerAlpha) \cup Range(Digits) \cup {"_"}

\* a _checkName that leaves out the characters it should replace
checkNameDrop(name) == SelectSeq(name, LAMBDA c : Lower(c) \in LegalChars)

\* _checkName: every character outside the legal ones becomes "_"
checkName(name) ==
    [i \in 1..Len(name) |-> IF Lower(name[i]) \in LegalChars THEN name[i] ELSE "_"]

\* the maximal run of digits that ends the name (the for loop of _incName)
RECURSIVE DigitPart(_)
DigitPart(name) ==
    IF name = <<>> \/ ~IsDigit(name[Len(name)]) THEN <<>>
    ELSE DigitPart(SubSeq(name, 1, Len(name) - 1)) \o <<name[Len(name)]>>

\* the body of the while loop of _incName kept from adding one to the digits
incNameStepKept(name, ind) == [name |-> name, ind |-> ind]

\* the body of the while loop of _incName: the digits the name ends with
\* are replaced by their value plus one, or the counter is appended
incNameStep(name, ind) ==
    LET digit_part == DigitPart(name)
        digic_len == Len(digit_part)
    IN  IF digit_part # <<>>
        THEN [name |-> SubSeq(name, 1, Len(name) - digic_len)
                           \o IntToStr(StrToInt(digit_part) + 1),
              ind |-> ind]
        ELSE [name |-> name \o IntToStr(ind), ind |-> ind + 1]

\* the while loop of _incName; names is what _listTakeNames() returns
RECURSIVE incNameLoop(_, _, _)
incNameLoop(name, ind, names) ==
    IF name \notin Range(names) THEN name
    ELSE incNameLoop(incNameStep(name, ind).name, incNameStep(name, ind).ind, names)

\* _incName without its loop: the name is returned as proposed
incNameNoLoop(name, names) == name

\* _incName appending the counter to a name that ends in digits too
incNameAppend(name, names) ==
    IF name \notin Range(names) THEN name ELSE name \o IntToStr(1)

incName(name, names) == incNameLoop(name, 1, names)

(***************************************************************************)
(* The host: take list, active take, inclusions, scene.                    *)
(***************************************************************************)
HostNames(tk) == {tk[i].name : i \in 1..Len(tk)}

HostTake(tk, name) == tk[CHOOSE i \in 1..Len(tk) : tk[i].name = name]

RECURSIVE HostDepth(_, _, _)
HostDepth(tk, name, fuel) ==
    IF name = Main \/ fuel = 0 \/ name \notin HostNames(tk) THEN 0
    ELSE 1 + HostDepth(tk, HostTake(tk, name).parent, fuel - 1)

Spaces(n) == [i \in 1..n |-> " "]

\* output of "takels": one take per line, indented by its depth
takels(tk) ==
    Join([i \in 1..Len(tk) |-> Spaces(HostDepth(tk, tk[i].name, Len(tk))) \o tk[i].name],
         Newline)

\* _listTakeNames
listTakeNames(tk) ==
    LET lines == SelectSeq(Split(takels(tk), "\n"), LAMBDA n : n # <<>>)
    IN  [i \in 1..Len(lines) |-> Replace(lines[i], Space, <<>>)]

\* "takeadd [-p parent] name": with no -p the new take is a child of the active take
takeadd(tk, act, parent, name) ==
    Append(tk, [name |-> name,
                parent |-> IF parent = <<>> THEN act ELSE parent,
                incl |-> {}])

\* "takeset name" fails when the host has no take of that name
takesetFails(tk, name) == name \notin HostNames(tk)

\* "takename old new"
takename(tk, old, new) ==
    [i \in 1..Len(tk) |->
        [name |-> IF tk[i].name = old THEN new ELSE tk[i].name,
         parent |-> IF tk[i].parent = old THEN new ELSE tk[i].parent,
         incl |-> tk[i].incl]]

RECURSIVE HostIsUnder(_, _, _, _)
HostIsUnder(tk, name, anc, fuel) ==
    IF name = anc THEN TRUE
    ELSE IF name = Main \/ fuel = 0 \/ name \notin HostNames(tk) THEN FALSE
         ELSE HostIsUnder(tk, HostTake(tk, name).parent, anc, fuel - 1)

\* "takerm [-R] name": the children go with it (-R) or move to its parent
takerm(tk, name, recursive) ==
    LET gone(n) == IF recursive THEN HostIsUnder(tk, n, name, Len(tk)) ELSE n = name
        kept == SelectSeq(tk, LAMBDA t : ~gone(t.name))
    IN  [i \in 1..Len(kept) |->
            IF kept[i].parent = name
            THEN [kept[i] EXCEPT !.parent = HostTake(tk, name).parent]
            ELSE kept[i]]

takermFails(tk, name) == name \notin HostNames(tk) \/ name = Main

(***************************************************************************)
(* The world an operation runs in, and the Take objects.                   *)
(* parent of a Take is the take name of self.parent ("-p " + parent), or   *)
(* the empty string.                                                       *)
(* node_included of a Take is a set of <<node path, cell>>: the dict of a  *)
(* node is a cell of the heap, so that two Take objects can hold the same  *)
(* dict object.                                                            *)
(***************************************************************************)
World == [takes |-> takes, active |-> active, scene |-> scene,
          objs |-> objs, heap |-> heap]

NoObj == [used |-> FALSE, name |-> <<>>, parent |-> <<>>, ni |-> {}]

Objs == 1..MaxObjs

FreeObjs(w) == {o \in Objs : ~w.objs[o].used}

\* what a call leaves behind for the properties: the operation, the object
\* it was called on, the take name it used or allocated, its arguments and
\* how it ended ("ok" or the exception class)
\* (had: the object held a dict for the node when an include call began)
Call(op, obj, name, arg, keys, inc, opt, res) ==
    [op |-> op, obj |-> obj, name |-> name, arg |-> arg, keys |-> keys,
     inc |-> inc, opt |-> opt, res |-> res,
     had |-> obj \in Objs /\ arg \in DictKeys(objs[obj].ni)]

NoCall == [op |-> "none", obj |-> 0, name |-> <<>>, arg |-> <<>>, keys |-> {},
           inc |-> FALSE, opt |-> FALSE, res |-> "ok", had |-> FALSE]

\* a setCurrent that sends no takeset directive
setCurrentSkipped(w, name) == [w |-> w, res |-> "ok"]

\* Take.setCurrent, setTake(take): "takeset " + name
setCurrent(w, name) ==
    IF takesetFails(w.takes, name)
    THEN [w |-> w, res |-> "TakeSetError"]
    ELSE [w |-> [w EXCEPT !.active = name], res |-> "ok"]

\* returnToMainTake
returnToMainTake(w) ==
    IF takesetFails(w.takes, Main)
    THEN [w |-> w, res |-> "TabError"]
    ELSE [w |-> [w EXCEPT !.active = Main], res |-> "ok"]

\* Take.__init__ keeping a parent that is not in the take list
initParentKept(w, parent) == parent

\* the parent string of Take.__init__: a parent that is not in the take
\* list is replaced by Main
initParent(w, parent) ==
    IF parent # <<>>
    THEN IF parent \notin Range(listTakeNames(w.takes)) /\ parent # Main
         THEN Main
         ELSE parent
    ELSE <<>>

\* Take._createTake; hostOk: the host accepts the takeadd directive
createTake(w, name, parent, hostOk) ==
    IF name \in Range(listTakeNames(w.takes))
    THEN [w |-> w, res |-> "TakeCreationError: already found in take list"]
    ELSE IF hostOk
         THEN [w |-> [w EXCEPT !.takes = takeadd(w.takes, w.active, parent, name)],
               res |-> "ok"]
         ELSE [w |-> w, res |-> "TakeCreationError: can not create take"]

\* a Take.__init__ that ends without a takeset directive
initTakesetSkipped(w, name, set_to_current) == w

\* the end of Take.__init__: "takeset " + self.name or "takeset Main",
\* whose result is not looked at
initTakeset(w, name, set_to_current) ==
    LET n == IF set_to_current THEN name ELSE Main
    IN  IF takesetFails(w.takes, n) THEN w ELSE [w EXCEPT !.active = n]

(***************************************************************************)
(* Nodes of the scene: hou.node(path), flag getters, parameters.           *)
(***************************************************************************)
FlagD == <<"-", "d">>
FlagR == <<"-", "r">>
FlagB == <<"-", "b">>
display_flag == <<"d", "i", "s", "p", "l", "a", "y", "_", "f", "l", "a", "g">>
render_flag == <<"r", "e", "n", "d", "e", "r", "_", "f", "l", "a", "g">>
bypass_flag == <<"b", "y", "p", "a", "s", "s", "_", "f", "l", "a", "g">>
Star == <<"*">>

\* the nodes of the scene, by path: "/a" and "/b-r"
NodeA == <<"/", "a">>
NodeB == <<"/", "b", "-", "r">>
AllNodes == {NodeA, NodeB}

\* hou.node(path) is not None
houNode(w, path) == path \in DOMAIN w.scene

\* the node has the getter of the flag (isDisplayFlagSet, isRenderFlagSet,
\* isBypassed); calling a getter it has not raises AttributeError
hasFlag(w, path, flag) == flag \in DictKeys(w.scene[path].flags)
flagValue(w, path, flag) == DictGet(w.scene[path].flags, flag)

\* n.parm(name) is not None; n.parm(name).eval(); [p.name() for p in n.parms()]
hasParm(w, path, name) == name \in DictKeys(w.scene[path].parms)
parmEval(w, path, name) == DictGet(w.scene[path].parms, name)
parmNames(w, path) == DictKeys(w.scene[path].parms)

BoolStr(b) == IF b THEN "True" ELSE "False"

\* setDisplayFlag / setRenderFlag / bypass
setFlag(w, path, flag, value) ==
    [w EXCEPT !.scene[path].flags = DictPut(@, flag, BoolStr(value))]

\* n.parm(name).set(value)
setParm(w, path, name, value) ==
    [w EXCEPT !.scene[path].parms = DictPut(@, name, value)]

\* "takeinclude [-u] <flag> <node>" and "takeinclude [-u] <node> <parms>":
\* the host includes in, or excludes from, its active take
takeinclude(tk, act, exclude, pairs) ==
    [i \in 1..Len(tk) |->
        IF tk[i].name = act
        THEN [tk[i] EXCEPT !.incl = IF exclude THEN @ \ pairs ELSE @ \cup pairs]
        ELSE tk[i]]

\* the parameters a parameter pattern of takeinclude names on a node
parmPairs(w, path, pattern) ==
    IF pattern = Star THEN {<<path, q>> : q \in parmNames(w, path)}
    ELSE IF pattern # <<>> /\ hasParm(w, path, pattern) THEN {<<path, pattern>>}
         ELSE {}

(***************************************************************************)
(* The heap of dicts.                                                      *)
(***************************************************************************)
Cells == 1..(MaxObjs * Cardinality(AllNodes))

UsedCells(w) == UNION {{e[2] : e \in w.objs[o].ni} : o \in Objs}

\* a new dict object
FreshCell(w) ==
    CHOOSE c \in Cells \ UsedCells(w) : \A d \in Cells \ UsedCells(w) : c <= d

\* dicts no Take refers to any more are collected
Collect(w) ==
    [w EXCEPT !.heap = [c \in Cells |-> IF c \in UsedCells(w) THEN w.heap[c] ELSE {}]]

\* self.node_included[node_path], for a path that is a key
nodeDict(w, o, path) == w.heap[DictGet(w.objs[o].ni, path)]

\* a Take's node_included as a dict of dicts, by value
included(w, o) ==
    {<<e[1], w.heap[e[2]]>> : e \in w.objs[o].ni}

\* self.node_included[node_path] = d, for a new dict object d
putNewDict(w, o, path, d) ==
    LET c == FreshCell(w)
    IN  [w EXCEPT !.heap[c] = d,
                  !.objs[o].ni = DictPut(@, path, c)]

\* self.node_included.pop(node_path, None)
popNode(w, o, path) ==
    Collect([w EXCEPT !.objs[o].ni = DictPop(@, path)])

(***************************************************************************)
(* Take._includeExcludeFlag                                                *)
(***************************************************************************)
\* the getter includeFlagToDic reads the value with
flagGetter(flag_to_dic) ==
    IF flag_to_dic = display_flag THEN FlagD
    ELSE IF flag_to_dic = render_flag THEN FlagD
         ELSE FlagB

\* the inner function includeFlagToDic of _includeExcludeFlag
includeFlagToDic(w, o, node_path, flag_to_dic, includeFlag) ==
    IF ~hasFlag(w, node_path, flagGetter(flag_to_dic))
    THEN [w |-> w, res |-> "AttributeError"]
    ELSE LET flag_val == flagValue(w, node_path, flagGetter(flag_to_dic))
             ni == w.objs[o].ni
         IN  IF includeFlag
             THEN IF node_path \in DictKeys(ni)
                  THEN [w |-> [w EXCEPT !.heap[DictGet(ni, node_path)] =
                                            DictPut(@, flag_to_dic, flag_val)],
                        res |-> "ok"]
                  ELSE [w |-> putNewDict(w, o, node_path, {<<flag_to_dic, flag_val>>}),
                        res |-> "ok"]
             ELSE IF node_path \notin DictKeys(ni)
                  THEN [w |-> w, res |-> "KeyError"]
                  ELSE [w |-> [w EXCEPT !.heap[DictGet(ni, node_path)] =
                                            DictPop(@, flag_to_dic)],
                        res |-> "ok"]

\* the key a flag is recorded under
flagLabel(flag) ==
    IF flag = FlagD THEN display_flag
    ELSE IF flag = FlagB THEN bypass_flag
         ELSE render_flag

\* "Check if the node has correct flag": the getter of the flag is probed
\* and includeFlagToDic is called, an AttributeError of either becoming
\* InvalidFlagType
probeAndInclude(w, o, flag, node_path, includeFlag) ==
    IF ~hasFlag(w, node_path, IF flag \in {FlagD, FlagB} THEN flag ELSE FlagR)
    THEN [w |-> w, res |-> "InvalidFlagType"]
    ELSE LET r == includeFlagToDic(w, o, node_path, flagLabel(flag), includeFlag)
         IN  IF r.res = "AttributeError"
             THEN [w |-> w, res |-> "InvalidFlagType"]
             ELSE r

\* _includeExcludeFlag keeping a record that became empty
cleanEmptySkipped(w, o, node_path) == w

\* "Clean the dict with empty parms dict"
cleanEmpty(w, o, node_path) ==
    IF node_path \in DictKeys(w.objs[o].ni) /\ nodeDict(w, o, node_path) = {}
    THEN popNode(w, o, node_path)
    ELSE w

\* the flag is set after a successful include
setFlagAfter(w, flag, node_path, includeFlag, set_flag, flag_value) ==
    IF set_flag /\ includeFlag /\ flag \in {FlagD, FlagR, FlagB}
    THEN setFlag(w, node_path, flag, flag_value)
    ELSE w

\* hostOk: the host accepts the takeinclude directive
includeExcludeFlag(w, o, flag, node_path, includeFlag, set_flag, flag_value, hostOk) ==
    IF ~houNode(w, node_path)
    THEN [w |-> w, res |-> "InvalidNode"]
    ELSE LET r1 == probeAndInclude(w, o, flag, node_path, includeFlag)
         IN  IF r1.res # "ok" THEN [w |-> w, res |-> r1.res]
             ELSE LET r2 == setCurrent(r1.w, r1.w.objs[o].name)
                  IN  IF r2.res # "ok" THEN r2
                      ELSE LET w3 == cleanEmpty(r2.w, o, node_path)
                           IN  IF ~hostOk
                               THEN [w |-> w3, res |-> "TakeError"]
                               ELSE [w |-> setFlagAfter(
                                              [w3 EXCEPT !.takes =
                                                  takeinclude(w3.takes, w3.active,
                                                              ~includeFlag,
                                                              {<<node_path, flag>>})],
                                              flag, node_path, includeFlag,
                                              set_flag, flag_value),
                                     res |-> "ok"]

(***************************************************************************)
(* Take.includeParms                                                       *)
(***************************************************************************)
\* the order in which a dict hands out its keys
RECURSIVE KeySeq(_)
KeySeq(keys) ==
    IF keys = {} THEN <<>>
    ELSE LET k == CHOOSE x \in keys : TRUE
         IN  <<k>> \o KeySeq(keys \ {k})

FlagKeys == {display_flag, render_flag, bypass_flag}

flagOfKey(key) ==
    IF key = display_flag THEN FlagD
    ELSE IF key = render_flag THEN FlagR
         ELSE FlagB

\* the pairs the takeinclude directive issued for one key of parms_dict names
keyPairs(w, node_path, key) ==
    IF key \in FlagKeys THEN {<<node_path, flagOfKey(key)>>}
    ELSE parmPairs(w, node_path, IF hasParm(w, node_path, key) THEN key ELSE <<>>)

\* includeParms recording every key of parms_dict
keyRecordedAlways(w, node_path, key) == TRUE

\* parms_included[key] = parms_dict[key]: for a flag key, and for a key
\* that is a parameter of the node
keyRecorded(w, node_path, key) ==
    key \in FlagKeys \/ hasParm(w, node_path, key)

\* "Add parms dict": the loop over parms_dict.keys(), one takeinclude per
\* key; failAt is the directive the host rejects (0: none), sent counts
\* the directives issued so far
RECURSIVE includeKeys(_, _, _, _, _, _, _, _)
includeKeys(w, node_path, keys, parms_dict, include, parms_included, failAt, sent) ==
    IF keys = <<>>
    THEN [w |-> w, res |-> "ok", parms_included |-> parms_included]
    ELSE LET key == Head(keys)
             recorded == keyRecorded(w, node_path, key)
         IN  IF failAt = sent + 1
             THEN [w |-> w, res |-> "TakeSetError", parms_included |-> parms_included]
             ELSE includeKeys(
                      [w EXCEPT !.takes = takeinclude(w.takes, w.active, ~include,
                                                      keyPairs(w, node_path, key))],
                      node_path, Tail(keys), parms_dict, include,
                      IF recorded
                      THEN DictPut(parms_included, key, DictGet(parms_dict, key))
                      ELSE parms_included,
                      failAt, sent + 1)

\* "If dic is empty, add all parms": one takeinclude with the pattern *
includeAll(w, node_path, include, failAt) ==
    IF failAt = 1
    THEN [w |-> w, res |-> "TakeSetError", parms_included |-> {}]
    ELSE [w |-> [w EXCEPT !.takes = takeinclude(w.takes, w.active, ~include,
                                                parmPairs(w, node_path, Star))],
          res |-> "ok",
          parms_included |-> {<<q, parmEval(w, node_path, q)>> :
                                  q \in parmNames(w, node_path)}]

\* bool(value) of a dict value
Truthy(v) == v \notin {"None", "False", "0"}

\* "Set params value if set_parms_value"
RECURSIVE setParmsValue(_, _, _, _)
setParmsValue(w, node_path, keys, parms_dict) ==
    IF keys = <<>> THEN w
    ELSE LET k == Head(keys)
             v == DictGet(parms_dict, k)
             w1 == IF k \in FlagKeys
                   THEN IF hasFlag(w, node_path, flagOfKey(k))
                        THEN [w EXCEPT !.scene[node_path].flags =
                                           DictPut(@, flagOfKey(k), v)]
                        ELSE w
                   ELSE IF hasParm(w, node_path, k) /\ Truthy(v)
                        THEN setParm(w, node_path, k, v)
                        ELSE w
         IN  setParmsValue(w1, node_path, Tail(keys), parms_dict)

\* "Add data"
addData(w, o, node_path, parms_included) ==
    IF node_path \notin DictKeys(w.objs[o].ni)
    THEN putNewDict(w, o, node_path, parms_included)
    ELSE [w EXCEPT !.heap[DictGet(w.objs[o].ni, node_path)] =
                       {e \in @ : e[1] \notin DictKeys(parms_included)}
                           \cup parms_included]

\* "Remove data"
removeData(w, o, node_path, parms_included) ==
    IF node_path \notin DictKeys(w.objs[o].ni) THEN w
    ELSE IF nodeDict(w, o, node_path) = parms_included
         THEN popNode(w, o, node_path)
         ELSE cleanEmpty(
                  [w EXCEPT !.heap[DictGet(w.objs[o].ni, node_path)] =
                                {e \in @ : e[1] \notin DictKeys(parms_included)}],
                  o, node_path)

includeParms(w, o, node, parms_dict, include, set_parms_value, failAt) ==
    IF ~houNode(w, node)
    THEN [w |-> w, res |-> "InvalidNode"]
    ELSE LET r1 == setCurrent(w, w.objs[o].name)
         IN  IF r1.res # "ok" THEN r1
             ELSE LET keys == KeySeq(DictKeys(parms_dict))
                      r2 == IF parms_dict = {}
                            THEN includeAll(r1.w, node, include, failAt)
                            ELSE includeKeys(r1.w, node, keys, parms_dict, include,
                                             {}, failAt, 0)
                  IN  IF r2.res # "ok" THEN [w |-> r2.w, res |-> r2.res]
                      ELSE LET w3 == IF set_parms_value /\ include /\ parms_dict # {}
                                     THEN setParmsValue(r2.w, node, keys, parms_dict)
                                     ELSE r2.w
                           IN  [w |-> IF include
                                      THEN addData(w3, o, node, r2.parms_included)
                                      ELSE removeData(w3, o, node, r2.parms_included),
                                res |-> "ok"]

(***************************************************************************)
(* Take.__init__                                                           *)
(***************************************************************************)
\* "Constuct parameters dict": includeParms for every key that is a node
RECURSIVE initParms(_, _, _, _, _, _)
initParms(w, o, keys, parms_dict, set_parms, failAt) ==
    IF keys = <<>> THEN [w |-> w, res |-> "ok"]
    ELSE IF ~houNode(w, Head(keys))
         THEN initParms(w, o, Tail(keys), parms_dict, set_parms, failAt)
         ELSE LET r == includeParms(w, o, Head(keys), DictGet(parms_dict, Head(keys)),
                                    TRUE, set_parms, failAt)
              IN  IF r.res # "ok" THEN r
                  ELSE initParms(r.w, o, Tail(keys), parms_dict, set_parms, failAt)

\* the name Take.__init__ gives the take
initName(w, name, add_to_scene) ==
    IF add_to_scene
    THEN incName(checkName(name), listTakeNames(w.takes))
    ELSE checkName(name)

\* Take(name, parent, set_to_current, parms_dict, set_parms, add_to_scene),
\* the new object being objs[o]; an exception leaves no object
TakeInit(w, o, name, parent, set_to_current, parms_dict, set_parms, add_to_scene, hostOk, failAt) ==
    LET self_name == initName(w, name, add_to_scene)
        self_parent == initParent(w, parent)
        w1 == [w EXCEPT !.objs[o] = [used |-> TRUE, name |-> self_name,
                                     parent |-> self_parent, ni |-> {}]]
        r1 == IF add_to_scene THEN createTake(w1, self_name, self_parent, hostOk)
              ELSE [w |-> w1, res |-> "ok"]
    IN  IF r1.res # "ok"
        THEN [w |-> w, res |-> r1.res, name |-> self_name]
        ELSE LET r2 == initParms(r1.w, o, KeySeq(DictKeys(parms_dict)), parms_dict,
                                 set_parms, failAt)
             IN  IF r2.res # "ok"
                 THEN [w |-> Collect([r2.w EXCEPT !.objs[o] = NoObj]),
                       res |-> r2.res, name |-> self_name]
                 ELSE [w |-> initTakeset(r2.w, self_name, set_to_current),
                       res |-> "ok", name |-> self_name]

(***************************************************************************)
(* Take.includeParmsFromTake, setName, remove                              *)
(***************************************************************************)
\* "takemerge [-f] dest src": the host adds the inclusions of src to dest
takemerge(tk, dest, src) ==
    [i \in 1..Len(tk) |->
        IF tk[i].name = dest
        THEN [tk[i] EXCEPT !.incl = @ \cup HostTake(tk, src).incl]
        ELSE tk[i]]

takemergeFails(tk, dest, src) ==
    dest \notin HostNames(tk) \/ src \notin HostNames(tk)

\* dict(self.node_included.items() + take.getNodeIncluded().items()): the
\* entries of take come last and win, and they are take's own dict objects
mergedItems(w, o, s) ==
    {e \in w.objs[o].ni : e[1] \notin DictKeys(w.objs[s].ni)} \cup w.objs[s].ni

\* self is objs[o], take is objs[s]
includeParmsFromTake(w, o, s, force, hostOk) ==
    IF w.objs[s].name \notin Range(listTakeNames(w.takes))
    THEN [w |-> w, res |-> "TakeError"]
    ELSE IF takemergeFails(w.takes, w.objs[o].name, w.objs[s].name) \/ ~hostOk
         THEN [w |-> w, res |-> "TakeError"]
         ELSE [w |-> Collect([w EXCEPT
                        !.takes = takemerge(w.takes, w.objs[o].name, w.objs[s].name),
                        !.objs[o].ni = mergedItems(w, o, s)]),
               res |-> "ok"]

\* a setName that renames the host's take and keeps self.name
setNameStale(w, o, name, hostOk) ==
    IF name = w.objs[o].name
    THEN [w |-> w, res |-> "False", name |-> name]
    ELSE LET new == incName(checkName(name), listTakeNames(w.takes))
         IN  IF w.objs[o].name \notin HostNames(w.takes) \/ ~hostOk
             THEN [w |-> w, res |-> "TakeError", name |-> new]
             ELSE [w |-> [w EXCEPT
                            !.takes = takename(w.takes, w.objs[o].name, new),
                            !.active = IF @ = w.objs[o].name THEN new ELSE @],
                   res |-> "ok", name |-> new]

\* Take.setName; res "False": the name is the take's own and nothing is done
setName(w, o, name, hostOk) ==
    IF name = w.objs[o].name
    THEN [w |-> w, res |-> "False", name |-> name]
    ELSE LET new == incName(checkName(name), listTakeNames(w.takes))
         IN  IF w.objs[o].name \notin HostNames(w.takes) \/ ~hostOk
             THEN [w |-> w, res |-> "TakeError", name |-> new]
             ELSE [w |-> [w EXCEPT
                            !.takes = takename(w.takes, w.objs[o].name, new),
                            !.active = IF @ = w.objs[o].name THEN new ELSE @,
                            !.objs[o].name = new],
                   res |-> "ok", name |-> new]

\* Take.remove
remove(w, o, recursive) ==
    IF takermFails(w.takes, w.objs[o].name)
    THEN [w |-> w, res |-> "TakeDeleteError"]
    ELSE LET tk == takerm(w.takes, w.objs[o].name, recursive)
         IN  [w |-> [w EXCEPT !.takes = tk,
                              !.active = IF @ \in HostNames(tk) THEN @ ELSE Main],
              res |-> "ok"]

(***************************************************************************)
(* _readScript, takeFromName                                               *)
(***************************************************************************)
TakeincludeStr == <<"t", "a", "k", "e", "i", "n", "c", "l", "u", "d", "e">>
TakeaddStr == <<"t", "a", "k", "e", "a", "d", "d">>
QuietStr == <<" ", "-", "q">>

\* one line of the host's script of a take: "takeinclude [-q] <flag> <node>"
\* for an included flag, "takeinclude [-q] <node> <parm>" for a parameter
scriptLine(pair, quiet) ==
    TakeincludeStr \o (IF quiet THEN QuietStr ELSE <<>>) \o Space
        \o (IF pair[2] \in {FlagD, FlagR, FlagB}
            THEN pair[2] \o Space \o pair[1]
            ELSE pair[1] \o Space \o pair[2])

\* output of "takescript name": the takeadd line, then one line per inclusion
takescript(tk, name, quiet) ==
    LET pairs == KeySeq(HostTake(tk, name).incl)
    IN  Join(<<TakeaddStr \o Space \o name>>
                 \o [i \in 1..Len(pairs) |-> scriptLine(pairs[i], quiet)],
             Newline)

\* data_dict[node_path][key] = value, creating the dict of node_path
dataPut(data_dict, node_path, key, value) ==
    IF node_path \in DictKeys(data_dict)
    THEN DictPut(data_dict, node_path, DictPut(DictGet(data_dict, node_path), key, value))
    ELSE DictPut(data_dict, node_path, {<<key, value>>})

\* includeFlagToDic of _readScript without its "if n:": the getter is
\* called on None for a node the scene has not
readFlagToDicOfNone(w, data_dict, line, flag, flag_label) ==
    LET tokens == Split(line, " ")
        node_path == tokens[Len(tokens)]
    IN  IF ~houNode(w, node_path) \/ ~hasFlag(w, node_path, flag)
        THEN [data |-> data_dict, err |-> "AttributeError"]
        ELSE [data |-> dataPut(data_dict, node_path, flag_label,
                               flagValue(w, node_path, flag)),
              err |-> "ok"]

\* the inner function includeFlagToDic of _readScript, for a line that
\* holds the flag; err: a getter the node has not
readFlagToDic(w, data_dict, line, flag, flag_label) ==
    LET tokens == Split(line, " ")
        node_path == tokens[Len(tokens)]
    IN  IF ~houNode(w, node_path) THEN [data |-> data_dict, err |-> "ok"]
        ELSE IF ~hasFlag(w, node_path, flag)
             THEN [data |-> data_dict, err |-> "AttributeError"]
             ELSE [data |-> dataPut(data_dict, node_path, flag_label,
                                    flagValue(w, node_path, flag)),
                   err |-> "ok"]

NumSuffixes == [i \in 1..12 |-> IntToStr(i - 1)]
AxisSuffixes == <<(<<"x">>), (<<"y">>), (<<"z">>), (<<"u">>), (<<"v">>), (<<"w">>)>>

\* the two suffix loops: every parm_name + suffix that is a parameter of
\* the node is recorded
RECURSIVE readSuffixes(_, _, _, _, _)
readSuffixes(w, data_dict, node_path, parm_name, suffixes) ==
    IF suffixes = <<>> THEN data_dict
    ELSE LET tmp_parm == parm_name \o Head(suffixes)
         IN  readSuffixes(w,
                          IF hasParm(w, node_path, tmp_parm)
                          THEN dataPut(data_dict, node_path, tmp_parm,
                                       parmEval(w, node_path, tmp_parm))
                          ELSE data_dict,
                          node_path, parm_name, Tail(suffixes))

\* "No flags found": the line is "takeinclude <node> <parm>"
readParmLine(w, data_dict, line) ==
    LET line_list == Split(line, " ")
    IN  IF Len(line_list) < 2 THEN [data |-> data_dict, err |-> "IndexError"]
        ELSE IF ~houNode(w, line_list[2]) THEN [data |-> data_dict, err |-> "ok"]
        ELSE IF Len(line_list) < 3 THEN [data |-> data_dict, err |-> "IndexError"]
        ELSE LET node_path == line_list[2]
                 parm_name == line_list[3]
             IN  IF hasParm(w, node_path, parm_name)
                 THEN [data |-> dataPut(data_dict, node_path, parm_name,
                                        parmEval(w, node_path, parm_name)),
                       err |-> "ok"]
                 ELSE [data |-> readSuffixes(w, data_dict, node_path, parm_name,
                                             NumSuffixes \o AxisSuffixes),
                       err |-> "ok"]

\* the body of the loop over the takeinclude lines of the script
readLine(w, data_dict, rawline) ==
    LET line == Replace(rawline, QuietStr, <<>>)
    IN  IF Contains(line, FlagR)
        THEN readFlagToDic(w, data_dict, line, FlagR, render_flag)
        ELSE IF Contains(line, FlagD)
             THEN readFlagToDic(w, data_dict, line, FlagD, display_flag)
             ELSE IF Contains(line, FlagB)
                  THEN readFlagToDic(w, data_dict, line, FlagB, bypass_flag)
                  ELSE readParmLine(w, data_dict, line)

RECURSIVE readLines(_, _, _)
readLines(w, data_dict, lines) ==
    IF lines = <<>> THEN [data |-> data_dict, err |-> "ok"]
    ELSE LET r == readLine(w, data_dict, Head(lines))
         IN  IF r.err # "ok" THEN r
             ELSE readLines(w, r.data, Tail(lines))

\* the member dict _readScript builds from the text of a script
readScriptText(w, text) ==
    readLines(w, {},
              SelectSeq(Split(text, "\n"), LAMBDA n : StartsWith(n, TakeincludeStr)))

\* out_take.node_included = data_dict.copy(): every dict is a new object
RECURSIVE storeData(_, _, _, _)
storeData(w, o, data_dict, paths) ==
    IF paths = <<>> THEN w
    ELSE storeData(putNewDict(w, o, Head(paths), DictGet(data_dict, Head(paths))),
                   o, data_dict, Tail(paths))

\* the end of _readScript: "out_take.node_included = data_dict.copy()", r
\* being the result of Take(take_name, add_to_scene=False)
readStore(r, o, data_dict) ==
    [w |-> storeData(r.w, o, data_dict, KeySeq(DictKeys(data_dict))), res |-> "ok"]

\* the Take that _readScript builds, r being what the lines of the script
\* gave and w the world they were read in
readBuild(w, r, o, take_name) ==
    IF r.err # "ok" THEN [w |-> w, res |-> r.err]
    ELSE readStore(TakeInit(w, o, take_name, <<>>, FALSE, {}, FALSE, FALSE, TRUE, 0),
                   o, r.data)

\* the reading of the script, r being the result of "takeset " + take_name
\* and w the world before it
readCurrent(w, r, script, o, take_name) ==
    IF r.res # "ok" THEN [w |-> w, res |-> "TakeError"]
    ELSE readBuild(r.w, readScriptText(r.w, script), o, take_name)

\* _readScript(take_name), the Take returned being objs[o]; quiet: the
\* host writes the lines of its script with -q
readScript(w, o, take_name, quiet) ==
    IF take_name \notin Range(listTakeNames(w.takes))
    THEN [w |-> w, res |-> "TakeError"]
    ELSE readCurrent(w, setCurrent(w, take_name),
                     takescript(w.takes, take_name, quiet), o, take_name)

\* takeFromName(take_name)
takeFromName(w, o, take_name, quiet) ==
    IF take_name \notin Range(listTakeNames(w.takes))
    THEN [w |-> w, res |-> "TakeError"]
    ELSE readScript(w, o, take_name, quiet)

(***************************************************************************)
(* The scene and the inputs of the calls.                                  *)
(***************************************************************************)
scale == <<"s", "c", "a", "l", "e">>
tx == <<"t", "x">>
ty == <<"t", "y">>
nope == <<"n", "o", "p", "e">>
NoNode == <<"/", "x">>

SceneInit ==
    [n \in AllNodes |->
        IF n = NodeA
        THEN [flags |-> {<<FlagD, "True">>, <<FlagR, "False">>, <<FlagB, "False">>},
              parms |-> {<<scale, "1">>, <<tx, "0">>, <<ty, "0">>}]
        ELSE [flags |-> {<<FlagD, "False">>, <<FlagR, "True">>, <<FlagB, "False">>},
              parms |-> {<<scale, "1">>}]]

NameT == <<"t">>
NameT1 == <<"t", "1">>

Init ==
    /\ takes = <<[name |-> Main, parent |-> <<>>, incl |-> {}]>>
    /\ active = Main
    /\ scene = SceneInit
    /\ objs = [o \in Objs |-> NoObj]
    /\ heap = [c \in Cells |-> {}]
    /\ last = NoCall
    /\ ncalls = 0

\* the state after a call that ended in w
Becomes(w, call) ==
    /\ ncalls < MaxCalls
    /\ ncalls' = ncalls + 1
    /\ takes' = w.takes
    /\ active' = w.active
    /\ scene' = w.scene
    /\ objs' = w.objs
    /\ heap' = w.heap
    /\ last' = call

UsedObjs == {o \in Objs : objs[o].used}

\* the object a constructor fills: the first one the caller does not hold
NewObj == CHOOSE o \in FreeObjs(World) : \A p \in FreeObjs(World) : o <= p

(***************************************************************************)
(* The calls.                                                              *)
(***************************************************************************)
\* Take(name, parent, set_to_current, parms_dict)
NewTake(name, parent, set_to_current, parms_dict, hostOk) ==
    /\ FreeObjs(World) # {}
    /\ LET r == TakeInit(World, NewObj, name, parent, set_to_current, parms_dict,
                         FALSE, TRUE, hostOk, 0)
       IN  Becomes(r.w, Call("Take", IF r.res = "ok" THEN NewObj ELSE 0, r.name,
                             name, {parent}, FALSE, set_to_current, r.res))

FlagCall(op, flag, o, node, include, set_flag, flag_value, hostOk) ==
    /\ o \in UsedObjs
    /\ LET r == includeExcludeFlag(World, o, flag, node, include, set_flag,
                                   flag_value, hostOk)
       IN  Becomes(r.w, Call(op, o, objs[o].name, node, {flagLabel(flag)}, include,
                             set_flag, r.res))

\* Take.includeDisplayFlag
IncludeDisplayFlag(o, node, include, set_flag, flag_value, hostOk) ==
    FlagCall("includeDisplayFlag", FlagD, o, node, include, set_flag, flag_value, hostOk)

\* Take.includeRenderFlag
IncludeRenderFlag(o, node, include, set_flag, flag_value, hostOk) ==
    FlagCall("includeRenderFlag", FlagR, o, node, include, set_flag, flag_value, hostOk)

\* Take.includeBypassFlag
IncludeBypassFlag(o, node, include, set_flag, flag_value, hostOk) ==
    FlagCall("includeBypassFlag", FlagB, o, node, include, set_flag, flag_value, hostOk)

\* Take.includeParms
IncludeParms(o, node, parms_dict, include, set_parms_value, failAt) ==
    /\ o \in UsedObjs
    /\ LET r == includeParms(World, o, node, parms_dict, include, set_parms_value,
                             failAt)
       IN  Becomes(r.w, Call("includeParms", o, objs[o].name, node,
                             DictKeys(parms_dict), include, set_parms_value, r.res))

\* Take.includeParmsFromTake
IncludeParmsFromTake(o, s, force, hostOk) ==
    /\ o \in UsedObjs
    /\ s \in UsedObjs
    /\ LET r == includeParmsFromTake(World, o, s, force, hostOk)
       IN  Becomes(r.w, Call("includeParmsFromTake", o, objs[o].name, objs[s].name,
                             {}, TRUE, force, r.res))

\* Take.setName
SetName(o, name, hostOk) ==
    /\ o \in UsedObjs
    /\ LET r == setName(World, o, name, hostOk)
       IN  Becomes(r.w, Call("setName", o, r.name, name, {}, FALSE, FALSE, r.res))

\* Take.remove
Remove(o, recursive) ==
    /\ o \in UsedObjs
    /\ LET r == remove(World, o, recursive)
       IN  Becomes(r.w, Call("remove", o, objs[o].name, <<>>, {}, FALSE, recursive,
                             r.res))

\* Take.setCurrent, setTake(take)
SetCurrent(o) ==
    /\ o \in UsedObjs
    /\ LET r == setCurrent(World, objs[o].name)
       IN  Becomes(r.w, Call("setCurrent", o, objs[o].name, <<>>, {}, FALSE, FALSE,
                             r.res))

\* returnToMainTake()
ReturnToMainTake ==
    LET r == returnToMainTake(World)
    IN  Becomes(r.w, Call("returnToMainTake", 0, Main, <<>>, {}, FALSE, FALSE, r.res))

\* takeFromName(take_name)
TakeFromName(take_name, quiet) ==
    /\ FreeObjs(World) # {}
    /\ LET r == takeFromName(World, NewObj, take_name, quiet)
       IN  Becomes(r.w, Call("takeFromName", IF r.res = "ok" THEN NewObj ELSE 0,
                             take_name, take_name, {}, FALSE, quiet, r.res))

(***************************************************************************)
(* Specification SpecTakes: takes are created, renamed, removed and made   *)
(* current; the names proposed end in digits, in a digit run with a       *)
(* leading zero, in no digit, or hold an illegal character.                *)
(***************************************************************************)
NameT9 == <<"t", "9">>
NameT_1 == <<"t", "-", "1">>
Name09 == <<"0", "9">>
NameZ == <<"z">>

NameInputs == {NameT1, NameT, NameT9, NameT_1, Name09, Main}

NextTakes ==
    \/ \E name \in NameInputs : NewTake(name, <<>>, FALSE, {}, TRUE)
    \/ \E parent \in {NameT1, NameZ}, set_to_current, hostOk \in BOOLEAN :
           NewTake(NameT1, parent, set_to_current, {}, hostOk)
    \/ \E o \in Objs, name \in {NameT1, NameT_1}, hostOk \in BOOLEAN :
           SetName(o, name, hostOk)
    \/ \E o \in Objs, recursive \in BOOLEAN : Remove(o, recursive)
    \/ \E o \in Objs : SetCurrent(o)
    \/ ReturnToMainTake

SpecTakes == Init /\ [][NextTakes]_vars

(***************************************************************************)
(* Properties of the names (SpecTakes).                                    *)
(***************************************************************************)
NoDuplicateNames ==
    \A i, j \in 1..Len(takes) : i # j => takes[i].name # takes[j].name

\* a call that allocated a name: Take(...), or setName with another name
Allocates(call) == call.op \in {"Take", "setName"} /\ call.res # "False"

\* C2: the name _incName allocates for a sanitized name is not in the take
\* list as it was, and is the sanitized name itself when that was not in
\* the list; the take list never holds a name twice.
C2_NameAllocation ==
    /\ []NoDuplicateNames
    /\ [][Allocates(last') =>
            /\ last'.name \notin HostNames(takes)
            /\ checkName(last'.arg) \notin HostNames(takes)
                   => last'.name = checkName(last'.arg)]_vars

\* a name was proposed that was taken, and another one was allocated
C2_Witness ==
    /\ last.op = "Take" /\ last.res = "ok"
    /\ last.name # checkName(last.arg)
    /\ {last.name, checkName(last.arg)} \subseteq HostNames(takes)

NameT11 == <<"t", "1", "1">>
NameT12 == <<"t", "1", "2">>
NameT2 == <<"t", "2">>

\* Take("t1") is called while a take named t1 exists
SecondT1(call) ==
    call.op = "Take" /\ call.arg = NameT1 /\ NameT1 \in HostNames(takes)

\* C7 as stated: the second take proposed as t1 is named t11 or t12.
C7_Original ==
    [][SecondT1(last') /\ last'.res = "ok" => last'.name \in {NameT11, NameT12}]_vars

\* C7 amended: the second take proposed as t1 is not refused as a
\* collision, and is named t<k> for the least k >= 2 such that t<k> is not
\* in the take list: t2 when no take is named t2.
C7_DigitIncrement ==
    [][SecondT1(last') =>
        /\ last'.res # "TakeCreationError: already found in take list"
        /\ last'.res = "ok" =>
              /\ \E k \in 2..(Len(takes) + 1) :
                    /\ last'.name = <<"t">> \o IntToStr(k)
                    /\ \A j \in 2..(k - 1) : <<"t">> \o IntToStr(j) \in HostNames(takes)
              /\ last'.name \notin HostNames(takes)
              /\ last'.name \in HostNames(takes')]_vars

C7_Witness ==
    /\ last.op = "Take" /\ last.arg = NameT1 /\ last.res = "ok"
    /\ last.name = NameT2
    /\ {NameT1, NameT2} \subseteq HostNames(takes)

\* Take(name, parent) is called with a parent that is not in the take list
MissingParent(call) ==
    /\ call.op = "Take"
    /\ \E parent \in call.keys :
          parent # <<>> /\ parent # Main /\ parent \notin HostNames(takes)

\* C8 as stated: constructing a take with a parent that is not in the take
\* list fails with a TakeCreationError and adds no take.
C8_Original ==
    [][MissingParent(last') =>
          /\ last'.res \in {"TakeCreationError: already found in take list",
                            "TakeCreationError: can not create take"}
          /\ takes' = takes]_vars

\* C8 amended: constructing a take with a parent that is not in the take
\* list does not fail on that account: the take is added as a child of
\* Main, and under no other parent; the construction fails, with a
\* TakeCreationError and without adding a take, only when the host
\* rejects the takeadd directive.
C8_FallsBackToMain ==
    [][MissingParent(last') =>
          /\ last'.res \in {"ok", "TakeCreationError: can not create take"}
          /\ last'.res = "ok" =>
                /\ Len(takes') = Len(takes) + 1
                /\ SubSeq(takes', 1, Len(takes)) = takes
                /\ takes'[Len(takes')].name = last'.name
                /\ takes'[Len(takes')].parent = Main
          /\ last'.res # "ok" => takes' = takes]_vars

C8_Witness ==
    /\ last.op = "Take" /\ last.res = "ok" /\ last.keys = {NameZ}
    /\ NameZ \notin HostNames(takes)
    /\ HostTake(takes, last.name).parent = Main

\* C11: when Take(name, set_to_current=s) succeeds with no parms_dict, the
\* new take is in the host's take list, the node_included of the object is
\* empty, and the host's active take is the new take if s and Main
\* otherwise, whatever take was active before.
C11_NewTakeState ==
    [][\A o \in Objs :
          last'.op = "Take" /\ last'.res = "ok" /\ last'.obj = o =>
              /\ ~objs[o].used /\ objs'[o].used
              /\ objs'[o].name = last'.name
              /\ last'.name \in HostNames(takes') \ HostNames(takes)
              /\ objs'[o].ni = {}
              /\ active' = IF last'.opt THEN last'.name ELSE Main]_vars

\* a second take was created with set_to_current and is the active one
C11_Witness ==
    /\ last.op = "Take" /\ last.res = "ok" /\ last.opt
    /\ active = last.name /\ active # Main
    /\ objs[last.obj].ni = {}
    /\ Len(takes) = 3

\* C12: setName(n) with n the take's name returns False and changes
\* nothing; otherwise it succeeds or raises TakeError; on success
\* self.name is a name that was not in the take list, the sanitized n
\* itself when that was free, it is the name the host now lists for the
\* take, and no other take has it; on TakeError self.name and the take
\* list are as before.
C12_SetName ==
    [][\A o \in Objs :
          last'.op = "setName" /\ last'.obj = o =>
              /\ last'.arg = objs[o].name =>
                    /\ last'.res = "False"
                    /\ takes' = takes /\ objs' = objs /\ active' = active
              /\ last'.arg # objs[o].name => last'.res \in {"ok", "TakeError"}
              /\ last'.res = "ok" =>
                    /\ objs'[o].name \notin HostNames(takes)
                    /\ checkName(last'.arg) \notin HostNames(takes)
                           => objs'[o].name = checkName(last'.arg)
                    /\ Len(takes') = Len(takes)
                    /\ \E i \in 1..Len(takes) :
                          /\ takes[i].name = objs[o].name
                          /\ takes'[i].name = objs'[o].name
                          /\ \A j \in 1..Len(takes) \ {i} :
                                 takes'[j].name = takes[j].name
                                     /\ takes'[j].name # objs'[o].name
              /\ last'.res = "TakeError" => objs' = objs /\ takes' = takes]_vars

\* a take was renamed to a name that was taken and got another one
C12_Witness ==
    /\ last.op = "setName" /\ last.res = "ok"
    /\ last.name # checkName(last.arg)
    /\ objs[last.obj].name = last.name
    /\ {last.name, checkName(last.arg)} \subseteq HostNames(takes)

\* C13: the call made on a Take object right after its remove() succeeded
\* (setName, setCurrent) raises an error of the TakeError class and leaves
\* the host's take list alone.
C13_RemovedTakeFails ==
    [][\A o \in Objs :
          /\ last.op = "remove" /\ last.res = "ok" /\ last.obj = o
          /\ last'.obj = o /\ last'.op \in {"setName", "setCurrent"}
          => /\ last'.res \in {"TakeError", "TakeSetError"}
             /\ takes' = takes]_vars

\* the Take objects whose name is in the host's take list
LiveObjs == {o \in UsedObjs : objs[o].name \in HostNames(takes)}

\* the parent the Take object records: no parent stands for the root take
RecordedParent(o) == IF objs[o].parent = <<>> THEN Main ELSE objs[o].parent

\* following the recorded parents from the take called name reaches Main
RECURSIVE ReachesMain(_, _)
ReachesMain(name, fuel) ==
    IF name = Main THEN TRUE
    ELSE IF fuel = 0 THEN FALSE
         ELSE \E o \in LiveObjs :
                 objs[o].name = name /\ ReachesMain(RecordedParent(o), fuel - 1)

\* C21: after any sequence of creations, renames and removals, following
\* the parent names that the Take objects record, from any take of the
\* take list, reaches Main and never comes back to the take it started
\* from.
C21_ParentsAcyclic ==
    \A o \in LiveObjs : ReachesMain(RecordedParent(o), MaxObjs)

(***************************************************************************)
(* The hierarchy: setParent and getParent, which the tests call and        *)
(* PyTake2.py does not define, after the specification (section 4.3).      *)
(***************************************************************************)
\* a Take instance given where a take name is expected (parent=takeA): a
\* value that is equal to no string of the take list
TakeObject(o) == <<"<", "T", "a", "k", "e", ">">> \o IntToStr(o)

\* the take name a parent argument stands for: the name of the Take
\* instance, or the string itself
ParentName(w, parent) ==
    IF \E s \in Objs : parent = TakeObject(s)
    THEN w.objs[CHOOSE s \in Objs : parent = TakeObject(s)].name
    ELSE parent

\* the move directive: the take becomes a child of parent
takemove(tk, name, parent) ==
    [i \in 1..Len(tk) |->
        IF tk[i].name = name THEN [tk[i] EXCEPT !.parent = parent] ELSE tk[i]]

\* the host refuses to move a take it has not, or under itself
takemoveFails(tk, name, parent) ==
    \/ name \notin HostNames(tk) \/ name = Main
    \/ HostIsUnder(tk, parent, name, Len(tk))

\* setParent(takeOrNameOrNone): None (<<>>) stands for the root take; a
\* name or reference must be in the take list
setParent(w, o, parent, hostOk) ==
    LET target == IF parent = <<>> THEN Main ELSE ParentName(w, parent)
    IN  IF target \notin HostNames(w.takes)
        THEN [w |-> w, res |-> "TakeError"]
        ELSE IF takemoveFails(w.takes, w.objs[o].name, target) \/ ~hostOk
             THEN [w |-> w, res |-> "TakeError"]
             ELSE [w |-> [w EXCEPT !.takes = takemove(@, w.objs[o].name, target),
                                   !.objs[o].parent = IF parent = <<>> THEN <<>>
                                                      ELSE target],
                   res |-> "ok"]

\* getParent().getName(): the name of the parent of the take
getParent(w, o) == HostTake(w.takes, w.objs[o].name).parent

\* Take.setParent
SetParent(o, parent, hostOk) ==
    /\ o \in UsedObjs
    /\ LET r == setParent(World, o, parent, hostOk)
       IN  Becomes(r.w, Call("setParent", o, objs[o].name, parent, {}, FALSE, FALSE,
                             r.res))

(***************************************************************************)
(* Specification SpecTree: takes proposed as t1 are created under no       *)
(* parent, under a parent given by name or as a Take instance, moved under *)
(* another parent, and removed.                                            *)
(***************************************************************************)
NextTree ==
    \/ \E parent \in {<<>>, NameT1, TakeObject(1)} :
           NewTake(NameT1, parent, FALSE, {}, TRUE)
    \/ \E o \in Objs, parent \in {<<>>, NameT1, NameT2, NameZ, TakeObject(1)},
          hostOk \in BOOLEAN :
           SetParent(o, parent, hostOk)
    \/ \E o \in Objs : Remove(o, FALSE)

SpecTree == Init /\ [][NextTree]_vars

\* the parent of the take of objs[o] in the current state
GetParent(o) == getParent(World, o)

Included(o) == included(World, o)

\* node_included.get(path, {}) of objs[o] in the current state
Record(o, path) ==
    IF path \in DictKeys(objs[o].ni) THEN nodeDict(World, o, path) ELSE {}

(***************************************************************************)
(* Take.copy                                                               *)
(***************************************************************************)
CopySuffix == <<"_", "c", "o", "p", "y">>

\* "for k in self.node_included: out_take.includeParms(k, self.node_included[k])",
\* out_take being objs[c]
copyParms(w, o, c, paths, failAt) ==
    LET done[i \in 0..Len(paths)] ==
            IF i = 0 THEN [w |-> w, res |-> "ok"]
            ELSE LET r == done[i - 1]
                 IN  IF r.res # "ok" THEN r
                     ELSE includeParms(r.w, c, paths[i], nodeDict(r.w, o, paths[i]),
                                       TRUE, FALSE, failAt)
    IN  done[Len(paths)]

\* setTake(take) called with a take name: a str has no attribute name
setTakeOfName(w, name) == [w |-> w, res |-> "AttributeError"]

\* an exception raised in copy() after the copy was created leaves the
\* caller without the Take object
copyLost(w, c) == Collect([w EXCEPT !.objs[c] = NoObj])

\* the end of copy(): "return out_take", r being the result of the take switch
copyReturn(r, c, name) ==
    IF r.res # "ok" THEN [w |-> copyLost(r.w, c), res |-> r.res, name |-> name]
    ELSE [w |-> r.w, res |-> "ok", name |-> name]

\* "if set_current: setTake(name) else: returnToMainTake()", r being the
\* result of the includeParms loop and out_name the name of the copy
copyCurrent(r, c, name, out_name, set_current) ==
    IF r.res # "ok" THEN [w |-> copyLost(r.w, c), res |-> r.res, name |-> out_name]
    ELSE copyReturn(IF set_current THEN setTakeOfName(r.w, name)
                    ELSE returnToMainTake(r.w), c, out_name)

\* the includeParms loop of copy(), r being the result of Take(name)
copyStore(r, o, c, name, paths, set_current, failAt) ==
    IF r.res # "ok" THEN r
    ELSE copyCurrent(copyParms(r.w, o, c, paths, failAt), c, name, r.name,
                     set_current)

\* "if not name: name = self.name + '_copy'"
copyName(w, o, name) == IF name = <<>> THEN w.objs[o].name \o CopySuffix ELSE name

\* Take.copy(name, set_current), self being objs[o] and the copy objs[c]
copy(w, o, c, name, set_current, hostOk, failAt) ==
    IF w.objs[o].name \notin Range(listTakeNames(w.takes))
    THEN [w |-> w, res |-> "TakeError", name |-> name]
    ELSE copyStore(TakeInit(w, c, copyName(w, o, name), <<>>, FALSE, {}, FALSE,
                            TRUE, hostOk, 0),
                   o, c, copyName(w, o, name), KeySeq(DictKeys(w.objs[o].ni)),
                   set_current, failAt)

\* Take.copy
Copy(o, name, set_current, hostOk, failAt) ==
    /\ o \in UsedObjs
    /\ FreeObjs(World) # {}
    /\ LET r == copy(World, o, NewObj, name, set_current, hostOk, failAt)
       IN  Becomes(r.w, Call("copy", o, r.name, name, {}, FALSE, set_current, r.res))

\* the parms_dict arguments of Take(...): node path -> parameter -> value
TakeDicts == {{}, {<<NodeA, {<<scale, "2">>}>>}}

(***************************************************************************)
(* Specification SpecCopy: a take named t is created, flags and parameters *)
(* of /a are included in it, and it is copied, under a name or under none. *)
(***************************************************************************)
NextCopy ==
    \/ \E parms_dict \in TakeDicts : NewTake(NameT, <<>>, FALSE, parms_dict, TRUE)
    \/ \E o \in Objs : IncludeDisplayFlag(o, NodeA, TRUE, FALSE, TRUE, TRUE)
    \/ \E o \in Objs, parms_dict \in {{<<nope, "1">>}, {<<tx, "None">>}} :
           IncludeParms(o, NodeA, parms_dict, TRUE, FALSE, 0)
    \/ \E o \in Objs, name \in {<<>>, NameT}, set_current, hostOk \in BOOLEAN,
          failAt \in 0..1 :
           Copy(o, name, set_current, hostOk, failAt)
    \/ \E o \in Objs : Remove(o, FALSE)

SpecCopy == Init /\ [][NextCopy]_vars

\* the names a store holds: node path -> flag and parameter names
StoreNames(store) == {<<e[1], DictKeys(e[2])>> : e \in store}

\* C15: when copy() succeeds, the copy has a name that no take had, its
\* node_included holds the node paths of the source's with the same flag
\* and parameter names, and the source's name and node_included are as
\* before.
C15_CopyStore ==
    [][\A o \in Objs :
          last'.op = "copy" /\ last'.res = "ok" /\ last'.obj = o =>
              /\ objs'[o].name = objs[o].name
              /\ Included(o)' = Included(o)
              /\ \E c \in Objs \ {o} :
                    /\ ~objs[c].used /\ objs'[c].used
                    /\ objs'[c].name = last'.name
                    /\ objs'[c].name \notin HostNames(takes)
                    /\ objs'[c].name \in HostNames(takes')
                    /\ StoreNames(Included(c)') = StoreNames(Included(o))]_vars

\* C16: a copy() that the host does not reject returns the copy, and the
\* host's active take is then the copy when set_current is true and Main
\* when it is false.
C16_CopyActive ==
    [][last'.op = "copy" =>
          /\ last'.res # "AttributeError"
          /\ last'.res = "ok" =>
                active' = IF last'.opt THEN last'.name ELSE Main]_vars

(***************************************************************************)
(* Specification SpecNames: _checkName is applied to a string, and again   *)
(* to its result. The string is in last.arg before the call; last.keys     *)
(* keeps it.                                                               *)
(***************************************************************************)
NameAlphabet == {"t", "T", "1", "_", "-", " "}

NameStrings == UNION {[1..n -> NameAlphabet] : n \in 0..MaxNameLen}

InitNames ==
    /\ takes = <<[name |-> Main, parent |-> <<>>, incl |-> {}]>>
    /\ active = Main
    /\ scene = SceneInit
    /\ objs = [o \in Objs |-> NoObj]
    /\ heap = [c \in Cells |-> {}]
    /\ \E name \in NameStrings : last = [NoCall EXCEPT !.arg = name]
    /\ ncalls = 0

\* _checkName(name)
CheckName ==
    /\ last.op = "none"
    /\ Becomes(World, Call("_checkName", 0, checkName(last.arg), last.arg,
                           {last.arg}, FALSE, FALSE, "ok"))

\* _checkName(_checkName(name))
CheckNameAgain ==
    /\ last.op = "_checkName"
    /\ Becomes(World, Call("_checkName again", 0, checkName(last.name), last.name,
                           last.keys, FALSE, FALSE, "ok"))

NextNames == CheckName \/ CheckNameAgain

SpecNames == InitNames /\ [][NextNames]_vars

NameChars == Range(LowerAlpha) \cup Range(UpperAlpha) \cup Range(Digits) \cup {"_"}

\* C17: the result of _checkName has the length of its argument and holds
\* only letters, digits and underscores, and _checkName applied to it
\* gives it back.
C17_CheckNameIdempotent ==
    /\ last.op \in {"_checkName", "_checkName again"} =>
          /\ Len(last.name) = Len(last.arg)
          /\ \A i \in 1..Len(last.name) : last.name[i] \in NameChars
    /\ last.op = "_checkName again" => last.name = last.arg

\* a string with an illegal character was sanitized, and sanitized again
C17_Witness ==
    /\ last.op = "_checkName again"
    /\ last.name = last.arg
    /\ \E name \in last.keys :
          /\ name # last.name /\ Len(name) = MaxNameLen
          /\ "-" \in Range(name) /\ "T" \in Range(name)

(***************************************************************************)
(* Specification SpecScript: the loop of _readScript over the lines of a   *)
(* script is applied to a script of up to MaxLines takeinclude lines, in   *)
(* a scene where /a has the parameters scale, tx, ty, p1 and p11. The      *)
(* script is in last.arg before the call; afterwards last.keys is          *)
(* data_dict and last.res the exception, if any.                           *)
(***************************************************************************)
\* a node the script names and the scene has not (any more)
StaleNode == <<"/", "x", "-", "d">>

pt == <<"t">>
pp == <<"p">>
p1 == <<"p", "1">>
p11 == <<"p", "1", "1">>

ScriptScene ==
    [n \in AllNodes |->
        IF n = NodeA
        THEN [flags |-> {<<FlagD, "True">>, <<FlagR, "False">>, <<FlagB, "False">>},
              parms |-> {<<scale, "1">>, <<tx, "0">>, <<ty, "0">>,
                         <<p1, "5">>, <<p11, "6">>}]
        ELSE [flags |-> {<<FlagD, "False">>, <<FlagR, "True">>, <<FlagB, "False">>},
              parms |-> {<<scale, "1">>}]]

\* what a line of the script includes: <<node, flag>> or <<node, parameter>>
ScriptPairs ==
    {<<n, f>> : n \in {NodeA, NodeB, StaleNode}, f \in {FlagD, FlagR, FlagB}}
        \cup {<<n, p>> : n \in {NodeA, NodeB, StaleNode}, p \in {scale, pt, pp, p1, nope}}

\* the text "takescript" gives for a take with these inclusions
ScriptText(pairs, quiet) ==
    Join(<<TakeaddStr \o Space \o NameT>>
             \o [i \in 1..Len(pairs) |-> scriptLine(pairs[i], quiet)],
         Newline)

ScriptTexts ==
    {ScriptText(pairs, quiet) :
        pairs \in UNION {[1..n -> ScriptPairs] : n \in 0..MaxLines},
        quiet \in BOOLEAN}

InitScript ==
    /\ takes = <<[name |-> Main, parent |-> <<>>, incl |-> {}]>>
    /\ active = Main
    /\ scene = ScriptScene
    /\ objs = [o \in Objs |-> NoObj]
    /\ heap = [c \in Cells |-> {}]
    /\ \E text \in ScriptTexts : last = [NoCall EXCEPT !.arg = text]
    /\ ncalls = 0

\* the lines of _readScript that build data_dict from the script
ReadScriptText ==
    /\ last.op = "none"
    /\ LET r == readScriptText(World, last.arg)
       IN  Becomes(World, Call("_readScript", 0, <<>>, last.arg, r.data, FALSE,
                               FALSE, r.err))

NextScript == ReadScriptText

SpecScript == InitScript /\ [][NextScript]_vars

\* the tokens of the takeinclude lines of a script, -q left out
LineTokens(text) ==
    LET lines == SelectSeq(Split(text, "\n"), LAMBDA n : StartsWith(n, TakeincludeStr))
    IN  [i \in 1..Len(lines) |->
            SelectSeq(Split(lines[i], " "), LAMBDA x : x # <<"-", "q">>)]

FlagTokens == {FlagD, FlagR, FlagB}

\* a line "takeinclude <flag> <node>" and the node it names
IsFlagLine(tok) == tok[2] \in FlagTokens
LineNode(tok) == IF IsFlagLine(tok) THEN tok[Len(tok)] ELSE tok[2]

\* data_dict.get(node, {}) of the result
DataRecord(node) == IF node \in DictKeys(last.keys) THEN DictGet(last.keys, node) ELSE {}

\* C18: in the result of reading a script, every flag line (directive
\* token -d, -r or -b) of a node of the scene has its flag recorded under
\* the node, a flag is recorded under a node only when a line with its
\* token names the node, and every parameter line that names a parameter
\* of a node of the scene has that parameter recorded under the node,
\* whatever characters the node path holds.
C18_FlagLineByToken ==
    last.op = "_readScript" =>
        LET toks == LineTokens(last.arg)
        IN  /\ last.res = "ok"
            /\ \A i \in 1..Len(toks) :
                  LET tok == toks[i]
                      node == LineNode(tok)
                  IN  node \in DOMAIN scene =>
                          IF IsFlagLine(tok)
                          THEN flagLabel(tok[2]) \in DictKeys(DataRecord(node))
                          ELSE hasParm(World, node, tok[3])
                                   => tok[3] \in DictKeys(DataRecord(node))
            /\ \A node \in DOMAIN scene, f \in FlagTokens :
                  flagLabel(f) \in DictKeys(DataRecord(node)) =>
                      \E i \in 1..Len(toks) : toks[i] = <<TakeincludeStr, f, node>>

\* the suffixes _readScript tries on a parameter name that the node has not
ParmSuffixes ==
    {IntToStr(i) : i \in 0..11} \cup
    {<<"x">>, <<"y">>, <<"z">>, <<"u">>, <<"v">>, <<"w">>}

\* what a parameter line "takeinclude <node> <p>" stands for on a node of
\* the scene: p itself if the node has it, else its suffixed variants
LineParms(node, p) ==
    IF hasParm(World, node, p) THEN {p}
    ELSE {p \o s : s \in ParmSuffixes} \cap parmNames(World, node)

\* C19: in the result of reading a script, the parameter names recorded
\* under a node of the scene are those its parameter lines stand for: the
\* base name p itself if the node has a parameter p, and no suffixed
\* variant; otherwise the names p+s, s in 0..11 or x, y, z, u, v, w, that
\* the node has; a node whose lines stand for nothing has no record.
C19_ParmLine ==
    last.op = "_readScript" =>
        LET toks == LineTokens(last.arg)
        IN  \A node \in DOMAIN scene :
                LET named == UNION {LineParms(node, toks[i][3]) :
                                       i \in {j \in 1..Len(toks) :
                                                 ~IsFlagLine(toks[j])
                                                     /\ toks[j][2] = node}}
                    flagged == \E i \in 1..Len(toks) :
                                   IsFlagLine(toks[i]) /\ LineNode(toks[i]) = node
                IN  /\ {k \in DictKeys(DataRecord(node)) : k \notin FlagKeys} = named
                    /\ named = {} /\ ~flagged => node \notin DictKeys(last.keys)

\* a line that names a node the scene has not
IsStaleLine(tok) == LineNode(tok) \notin DOMAIN scene

\* the script without its stale takeinclude lines
LiveText(text) ==
    LET lines == Split(text, "\n")
        stale(n) == /\ StartsWith(n, TakeincludeStr)
                    /\ IsStaleLine(SelectSeq(Split(n, " "), LAMBDA x : x # <<"-", "q">>))
    IN  Join(SelectSeq(lines, LAMBDA n : ~stale(n)), Newline)

ParmDicts ==
    {{}, {<<scale, "2">>}, {<<scale, "None">>, <<nope, "1">>}, {<<nope, "1">>},
     {<<display_flag, "False">>, <<tx, "None">>}}

Next ==
    \/ \E set_to_current \in BOOLEAN : NewTake(NameT, <<>>, set_to_current, {}, TRUE)
    \/ \E o \in Objs, include, hostOk \in BOOLEAN :
           IncludeDisplayFlag(o, NodeA, include, FALSE, TRUE, hostOk)
    \/ \E o \in Objs, include, set_flag \in BOOLEAN :
           IncludeRenderFlag(o, NodeA, include, set_flag, TRUE, TRUE)
    \/ \E o \in Objs, node \in {NodeA, NoNode}, include \in BOOLEAN :
           IncludeBypassFlag(o, node, include, FALSE, TRUE, TRUE)
    \/ \E o \in Objs, parms_dict \in ParmDicts, include \in BOOLEAN, failAt \in 0..2 :
           IncludeParms(o, NodeA, parms_dict, include, FALSE, failAt)
    \/ \E o \in Objs : IncludeParms(o, NodeA, {<<scale, "2">>}, TRUE, TRUE, 0)
    \/ \E o \in Objs : Remove(o, FALSE)

Spec == Init /\ [][Next]_vars

(***************************************************************************)
(* Properties of the member store (Spec).                                  *)
(***************************************************************************)
FlagOps == {"includeDisplayFlag", "includeRenderFlag", "includeBypassFlag"}
InclusionOps == FlagOps \cup {"includeParms"}

\* C1: whatever flag and parameter include/exclude calls were made on a
\* take, returning or raising, no node path of its node_included maps to
\* an empty record.
C1_NoEmptyRecord ==
    \A o \in UsedObjs : \A path \in DictKeys(objs[o].ni) : Record(o, path) # {}

\* a successful includeDisplayFlag(node, include)
DisplayCall(call, include) ==
    call.op = "includeDisplayFlag" /\ call.inc = include /\ call.res = "ok"

\* C4: includeDisplayFlag(A, True) on a take with no record for A leaves
\* the other records as they were, and includeDisplayFlag(A, False) right
\* after it, both succeeding, leaves no record for A and again the other
\* records as they were: the store is the one before the two calls.
C4_IncludeThenExclude ==
    [][\A o \in Objs, node \in AllNodes :
          last'.obj = o /\ last'.arg = node =>
              /\ DisplayCall(last', TRUE) /\ ~last'.had =>
                    /\ node \in DictKeys(objs'[o].ni)
                    /\ {e \in Included(o)' : e[1] # node} = Included(o)
              /\ /\ DisplayCall(last, TRUE) /\ ~last.had
                 /\ last.obj = o /\ last.arg = node
                 /\ DisplayCall(last', FALSE)
                 => /\ node \notin DictKeys(objs'[o].ni)
                    /\ Included(o)' = {e \in Included(o) : e[1] # node}]_vars

\* the display flag of /a was included in a take without a record for it,
\* then excluded, and the take has no record
C4_Witness ==
    /\ ncalls = 3
    /\ DisplayCall(last, FALSE) /\ last.had /\ last.arg = NodeA
    /\ Included(last.obj) = {}
    /\ HostTake(takes, last.name).incl = {}

\* the keys of a record that are parameter names
ParmKeys(d) == {k \in DictKeys(d) : k \notin FlagKeys}

\* C5: a successful includeParms(node, parms_dict) with a non-empty
\* parms_dict adds to the record of the node exactly the requested names
\* that are parameters of the node: no other parameter is added, a
\* requested name the node has not is not recorded, and the records of
\* the other nodes are left alone.
C5_ExactlyRequested ==
    [][\A o \in Objs, node \in AllNodes :
          /\ last'.op = "includeParms" /\ last'.inc /\ last'.res = "ok"
          /\ last'.keys # {} /\ last'.obj = o /\ last'.arg = node
          => /\ ParmKeys(Record(o, node))' =
                    ParmKeys(Record(o, node)) \cup (last'.keys \cap parmNames(World, node))
             /\ \A path \in AllNodes \ {node} : Record(o, path)' = Record(o, path)]_vars

\* scale and nope were requested on /a, which has scale, tx and ty, and
\* the record holds scale only
C5_Witness ==
    /\ last.op = "includeParms" /\ last.inc /\ last.res = "ok"
    /\ last.arg = NodeA /\ last.keys = {scale, nope} /\ ~last.had
    /\ DictKeys(Record(last.obj, NodeA)) = {scale}
    /\ parmNames(World, NodeA) = {scale, tx, ty}

\* C9: a takeinclude directive of an inclusion call of take T is applied
\* by the host while T is its active take, so only the inclusions of T
\* change, and T is the active take when the call returns.
C9_ActiveWhenIncluded ==
    [][last'.op \in InclusionOps =>
          /\ last'.res = "ok" => active' = last'.name
          /\ takes' # takes =>
                /\ active' = last'.name
                /\ Len(takes') = Len(takes)
                /\ \A i \in 1..Len(takes) :
                       takes[i].name # last'.name => takes'[i] = takes[i]]_vars

\* two takes hold inclusions, the last one made by the take that is active
C9_Witness ==
    /\ last.op \in InclusionOps /\ last.res = "ok"
    /\ active = last.name
    /\ HostTake(takes, last.name).incl # {}
    /\ \E i \in 1..Len(takes) : takes[i].name # last.name /\ takes[i].incl # {}

\* C10: a flag include/exclude call that raises TakeSetError or TakeError
\* leaves node_included as it was before the call.
C10_StoreOnlyOnSuccess ==
    [][\A o \in Objs :
          /\ last'.op \in FlagOps /\ last'.obj = o
          /\ last'.res \in {"TakeSetError", "TakeError"}
          => Included(o)' = Included(o)]_vars

\* C26: an exclude call for flags or parameters of an existing node, none
\* of which the record of the node holds (the take may hold no record for
\* the node), ends without an error other than the host's, and leaves the
\* member store as it was.
C26_ExcludeAbsentHarmless ==
    [][\A o \in Objs, node \in AllNodes :
          /\ last'.op \in InclusionOps /\ ~last'.inc
          /\ last'.obj = o /\ last'.arg = node
          /\ last'.keys # {} /\ last'.keys \cap DictKeys(Record(o, node)) = {}
          => /\ last'.res \in {"ok", "TakeError", "TakeSetError"}
             /\ Included(o)' = Included(o)]_vars

(***************************************************************************)
(* Specification SpecStore: takes are created with and without a           *)
(* parms_dict, the display flag and scale of /a and of /b-r are included,  *)
(* takes are merged, and Take objects are rebuilt from the host's script.  *)
(***************************************************************************)
NextStore ==
    \/ \E parms_dict \in TakeDicts : NewTake(NameT, <<>>, FALSE, parms_dict, TRUE)
    \/ \E o \in Objs, node \in AllNodes :
           IncludeDisplayFlag(o, node, TRUE, FALSE, TRUE, TRUE)
    \/ \E o \in Objs, node \in AllNodes :
           IncludeParms(o, node, {<<scale, "None">>}, TRUE, FALSE, 0)
    \/ \E o, s \in Objs, force, hostOk \in BOOLEAN :
           IncludeParmsFromTake(o, s, force, hostOk)
    \/ \E take_name \in {NameT, NameT1}, quiet \in BOOLEAN :
           TakeFromName(take_name, quiet)

SpecStore == Init /\ [][NextStore]_vars

\* C3: when the host's take holds the display flag and scale of a node,
\* takeFromName(name) returns a Take whose node_included has a record for
\* the node with display_flag and scale.
C3_RoundTrip ==
    \A node \in AllNodes :
        /\ last.op = "takeFromName" /\ last.name \in HostNames(takes)
        /\ {<<node, FlagD>>, <<node, scale>>} \subseteq HostTake(takes, last.name).incl
        => /\ last.res = "ok"
           /\ {display_flag, scale} \subseteq DictKeys(Record(last.obj, node))

\* C6: includeParmsFromTake(source, force=False) leaves every value the
\* destination holds in the records of its node paths as it was.
C6_NoForceKeepsDestination ==
    [][\A o \in Objs :
          /\ last'.op = "includeParmsFromTake" /\ last'.obj = o
          /\ ~last'.opt /\ last'.res = "ok"
          => \A path \in DictKeys(objs[o].ni) :
                 Record(o, path) \subseteq Record(o, path)']_vars

\* the name under which the host holds a key of a record: the flag of a
\* flag key, the parameter name otherwise
HostKey(key) == IF key \in FlagKeys THEN flagOfKey(key) ELSE key

\* the (node path, flag or parameter) pairs of node_included of objs[o]
StorePairs(o) ==
    UNION {{<<e[1], HostKey(kv[1])>> : kv \in e[2]} : e \in Included(o)}

\* node_included of objs[o] holds the pairs the host holds for its take
Mirrors(o) ==
    /\ o \in UsedObjs
    /\ objs[o].name \in HostNames(takes)
    /\ StorePairs(o) = HostTake(takes, objs[o].name).incl

\* C22: a take that was created successfully mirrors the host, and a
\* successful include or exclude of flags or parameters, of a whole node,
\* or a successful merge from a take that mirrors the host, on a take that
\* mirrors the host, leaves it mirroring the host: the pairs of its member
\* store are the pairs the host holds as included for that take.
C22_StoreMirrorsHost ==
    [][\A o \in Objs :
          /\ last'.op = "Take" /\ last'.res = "ok" /\ last'.obj = o => Mirrors(o)'
          /\ /\ last'.op \in InclusionOps \cup {"includeParmsFromTake"}
             /\ last'.res = "ok" /\ last'.obj = o /\ Mirrors(o)
             /\ last'.op = "includeParmsFromTake"
                    => \A t \in UsedObjs : objs[t].name = last'.arg => Mirrors(t)
             => Mirrors(o)']_vars

\* C23: an include or exclude call on a Take object, made after a merge
\* as at any other time, leaves the member store of every other Take
\* object as it was: the stores of the destination and of the source of
\* includeParmsFromTake are independent.
C23_StoresIndependent ==
    [][\A o, s \in Objs :
          /\ last'.op \in InclusionOps /\ last'.obj = o
          /\ s # o /\ objs[s].used
          => Included(s)' = Included(s)]_vars

(***************************************************************************)
(* The lookups: currentTake, takeFromName, ls                              *)
(***************************************************************************)
\* s.endswith(suf)
EndsWith(s, suf) ==
    Len(s) >= Len(suf) /\ SubSeq(s, Len(s) - Len(suf) + 1, Len(s)) = suf

\* the pattern test of ls: "*str", "str*" or "str"; no pattern takes all
lsMatches(take, pattern) ==
    IF pattern = <<>> THEN TRUE
    ELSE IF StartsWith(pattern, <<"*">>)
         THEN EndsWith(take, Replace(pattern, <<"*">>, <<>>))
         ELSE IF EndsWith(pattern, <<"*">>)
              THEN StartsWith(take, Replace(pattern, <<"*">>, <<>>))
              ELSE take = pattern

\* the takes of the list that ls does not skip
lsNames(tk, pattern) ==
    SelectSeq(listTakeNames(tk), LAMBDA take : take # Main /\ lsMatches(take, pattern))

\* the Take object a lookup builds next
lsObj(w) == CHOOSE o \in FreeObjs(w) : \A p \in FreeObjs(w) : o <= p

\* ls(pattern): out_list.append(_readScript(take)) for every take kept
ls(w, pattern, quiet) ==
    LET names == lsNames(w.takes, pattern)
        done[i \in 0..Len(names)] ==
            IF i = 0 THEN [w |-> w, res |-> "ok"]
            ELSE LET r == done[i - 1]
                 IN  IF r.res # "ok" THEN r
                     ELSE readScript(r.w, lsObj(r.w), names[i], quiet)
    IN  done[Len(names)]

\* currentTake(): None for the Main take, _readScript($ACTIVETAKE) otherwise
currentTake(w, o, quiet) ==
    IF w.active = Main THEN [w |-> w, res |-> "ok"]
    ELSE readScript(w, o, w.active, quiet)

\* currentTake()
CurrentTake(quiet) ==
    /\ FreeObjs(World) # {}
    /\ LET r == currentTake(World, NewObj, quiet)
       IN  Becomes(r.w, Call("currentTake",
                             IF r.res = "ok" /\ active # Main THEN NewObj ELSE 0,
                             active, <<>>, {}, FALSE, quiet, r.res))

\* ls(pattern)
Ls(pattern, quiet) ==
    /\ Len(lsNames(takes, pattern)) <= Cardinality(FreeObjs(World))
    /\ LET r == ls(World, pattern, quiet)
       IN  Becomes(r.w, Call("ls", 0, <<>>, pattern, {}, FALSE, quiet, r.res))

(***************************************************************************)
(* Specification SpecLookup: takes named t are created and made current,   *)
(* the display flag of /a is included, and the caller asks for the current *)
(* take, for a take by its name and for the takes of a pattern.            *)
(***************************************************************************)
LsPatterns == {<<>>, <<"t">>, <<"*", "1">>, <<"t", "*">>, <<"z", "*">>}

NextLookup ==
    \/ \E set_to_current \in BOOLEAN : NewTake(NameT, <<>>, set_to_current, {}, TRUE)
    \/ \E o \in Objs : SetCurrent(o)
    \/ ReturnToMainTake
    \/ \E o \in Objs : IncludeDisplayFlag(o, NodeA, TRUE, FALSE, TRUE, TRUE)
    \/ \E quiet \in BOOLEAN : CurrentTake(quiet)
    \/ \E take_name \in {NameT, NameT1}, quiet \in BOOLEAN :
           TakeFromName(take_name, quiet)
    \/ \E pattern \in LsPatterns, quiet \in BOOLEAN : Ls(pattern, quiet)

SpecLookup == Init /\ [][NextLookup]_vars

LookupOps == {"currentTake", "takeFromName", "ls"}

\* C24: currentTake(), takeFromName(name) and ls(pattern) leave the host's
\* take list and the host's active take as they were.
C24_LookupsKeepHost ==
    [][last'.op \in LookupOps => takes' = takes /\ active' = active]_vars

(***************************************************************************)
(* Specification SpecFlags: the display, render and bypass flags of /a are *)
(* included in and excluded from a take named t; /a is a node with the     *)
(* three flags, with the display flag only, or with the bypass flag only.  *)
(***************************************************************************)
FlagScenes ==
    {{<<FlagD, "True">>, <<FlagR, "False">>, <<FlagB, "False">>},
     {<<FlagD, "False">>, <<FlagR, "True">>, <<FlagB, "True">>},
     {<<FlagD, "True">>},
     {<<FlagB, "False">>}}

InitFlags ==
    /\ takes = <<[name |-> Main, parent |-> <<>>, incl |-> {}]>>
    /\ active = Main
    /\ \E flags \in FlagScenes : scene = [SceneInit EXCEPT ![NodeA].flags = flags]
    /\ objs = [o \in Objs |-> NoObj]
    /\ heap = [c \in Cells |-> {}]
    /\ last = NoCall
    /\ ncalls = 0

NextFlags ==
    \/ NewTake(NameT, <<>>, FALSE, {}, TRUE)
    \/ \E o \in Objs, include, set_flag, flag_value, hostOk \in BOOLEAN :
           IncludeDisplayFlag(o, NodeA, include, set_flag, flag_value, hostOk)
    \/ \E o \in Objs, include, set_flag, flag_value, hostOk \in BOOLEAN :
           IncludeRenderFlag(o, NodeA, include, set_flag, flag_value, hostOk)
    \/ \E o \in Objs, include, set_flag, flag_value, hostOk \in BOOLEAN :
           IncludeBypassFlag(o, NodeA, include, set_flag, flag_value, hostOk)

SpecFlags == InitFlags /\ [][NextFlags]_vars

\* C25: an include of a flag of a node raises InvalidFlagType exactly when
\* the node has not that flag, whatever other flags it has, and when it
\* succeeds the value recorded under the flag's key is the state of that
\* flag when the call was made.
C25_FlagOwnState ==
    [][\A o \in Objs, flag \in {FlagD, FlagR, FlagB} :
          /\ last'.op \in FlagOps /\ last'.obj = o /\ last'.arg = NodeA
          /\ last'.keys = {flagLabel(flag)} /\ last'.inc
          => /\ last'.res = "InvalidFlagType" <=> ~hasFlag(World, NodeA, flag)
             /\ last'.res = "ok"
                    => /\ flagLabel(flag) \in DictKeys(Record(o, NodeA)')
                       /\ DictGet(Record(o, NodeA)', flagLabel(flag))
                              = flagValue(World, NodeA, flag)]_vars

(***************************************************************************)
(* Specification SpecIncName: _incName(name) run one iteration of its      *)
(* while loop at a time, for proposed names with and without digits at the *)
(* end, with a leading zero and of digits only, against take lists of at   *)
(* most MaxTakes names. last.name is the name proposed, last.arg the local *)
(* name, last.obj the local ind, ncalls the iterations made so far, and    *)
(* last.keys what _listTakeNames() returns: the take list is left alone    *)
(* while the loop runs.                                                    *)
(* LiveIncName adds that the loop, sequential code of one caller, goes on. *)
(***************************************************************************)
NameT09 == <<"t", "0", "9">>
NameT10 == <<"t", "1", "0">>
Name9 == <<"9">>
Name10 == <<"1", "0">>

ExistingNames == {NameT, NameT1, NameT2, NameT9, NameT10, NameT09, Name9, Name09, Name10}
ProposedNames == {NameT, NameT1, NameT9, NameT09, Name9, Name09, NameZ}

\* a take list of the host holding Main and the takes of a set of names
HostOf(names) ==
    <<[name |-> Main, parent |-> <<>>, incl |-> {}]>>
        \o [i \in 1..Cardinality(names) |->
               [name |-> KeySeq(names)[i], parent |-> Main, incl |-> {}]]

InitIncName ==
    /\ \E names \in SUBSET ExistingNames :
           Cardinality(names) <= MaxTakes /\ takes = HostOf(names)
    /\ active = Main
    /\ scene = SceneInit
    /\ objs = [o \in Objs |-> NoObj]
    /\ heap = [c \in Cells |-> {}]
    /\ \E name \in ProposedNames :
           last = [NoCall EXCEPT !.op = "_incName", !.name = name, !.arg = name,
                                 !.obj = 1, !.res = "loop",
                                 !.keys = Range(listTakeNames(takes))]
    /\ ncalls = 0

\* "while name in _listTakeNames():" holds and the body runs once
IncNameIterate ==
    /\ last.op = "_incName" /\ last.res = "loop"
    /\ last.arg \in last.keys
    /\ ncalls < MaxIter
    /\ ncalls' = ncalls + 1
    /\ last' = [last EXCEPT !.arg = incNameStep(last.arg, last.obj).name,
                            !.obj = incNameStep(last.arg, last.obj).ind]
    /\ UNCHANGED <<takes, active, scene, objs, heap>>

\* the loop ends: "return name"
IncNameReturn ==
    /\ last.op = "_incName" /\ last.res = "loop"
    /\ last.arg \notin last.keys
    /\ last' = [last EXCEPT !.res = "ok"]
    /\ UNCHANGED <<takes, active, scene, objs, heap, ncalls>>

NextIncName == IncNameIterate \/ IncNameReturn

SpecIncName == InitIncName /\ [][NextIncName]_vars

LiveIncName == SpecIncName /\ WF_vars(IncNameIterate) /\ WF_vars(IncNameReturn)

\* C27: whatever name is proposed and whatever names the take list holds,
\* the loop of _incName ends: the name is returned after finitely many
\* iterations.
C27_IncNameTerminates == <>(last.op = "_incName" /\ last.res = "ok")

\* _incName("t09") returned after the loop ran twice: t09 and t10 were
\* taken
C27_Witness ==
    /\ last.op = "_incName" /\ last.res = "ok"
    /\ last.name = NameT09 /\ ncalls = 2
    /\ last.arg = incName(NameT09, listTakeNames(takes))
====
